---- MODULE Spec2Model ----
(***************************************************************************)
(* Media-Manager: the in-memory movie store (server/storage.ts), the       *)
(* validation schema (shared/schema.ts) and the HTTP handlers              *)
(* (server/routes.ts).                                                     *)
(*                                                                         *)
(* Modelling conventions                                                   *)
(*  - A well-formed UUID string is an element of Uuids; BadId stands for   *)
(*    a path parameter that z.string().uuid() rejects.                     *)
(*  - new Date() reads the variable now, a millisecond clock that the      *)
(*    action Tick advances; two calls in the same millisecond read the     *)
(*    same value.  The clock is taken to be non-decreasing.                *)
(*  - randomUUID() returns an id it has not returned before, the contract  *)
(*    of a 122-bit random generator.  Ids are opaque (the code compares    *)
(*    them for equality only), so the call returns the least element of    *)
(*    Uuids that no earlier call returned.                                 *)
(*  - The JavaScript Map is a sequence of [k, v] pairs in insertion order, *)
(*    which is the order Map.prototype.values() iterates in.               *)
(*  - Spec is the HTTP API: handlers of different requests interleave at   *)
(*    every await, the scheduling the Promise-returning IStorage interface *)
(*    permits.  StoreSpec is the MemStorage class called directly.         *)
(*    SerialSpec is the API with one request handled at a time, ListSpec   *)
(*    the list and create handlers with query strings of every kind.       *)
(***************************************************************************)
EXTENDS Integers, Sequences, FiniteSets, TLC

VARIABLES
    movies,     \* MemStorage.movies: sequence of [k |-> key, v |-> Movie]
    now,        \* the value new Date() returns
    created,    \* history: ids returned by createMovie, in call order
    obs,        \* the last getAllMovies call on the current map and its result
    req,        \* the HTTP handlers in flight, one record per connection
    started,    \* history: the number of HTTP requests received
    client      \* MoviesPage: the state of the page that walks the list

vars == <<movies, now, created, obs, req, started, client>>

(***************************************************************************)
(* Bounds of the model.                                                    *)
(***************************************************************************)
MaxCreates == 3     \* createMovie calls in one behaviour
MaxRequests == 3    \* HTTP requests in one behaviour
MaxClock == 1       \* the clock runs from 0 to MaxClock
MaxLimit == 2       \* page sizes 1..MaxLimit are requested
MaxPage == 2        \* pages 1..MaxPage are requested

Uuids == 1..MaxCreates
BadId == 0

\* The connections whose handlers may be in flight together.
Reqs == {"a", "b"}

Min(a, b) == IF a <= b THEN a ELSE b
Max(a, b) == IF a >= b THEN a ELSE b

(***************************************************************************)
(* shared/schema.ts                                                        *)
(***************************************************************************)
ContentFields ==
    {"title", "type", "director", "budget", "location", "duration", "yearTime"}

OmittedFields == {"id", "createdAt", "updatedAt"}

TypeEnum == {"Movie", "TV Show"}

\* A title rule that accepts one character
MinLenOne(k) == 1

MinLen(k) == IF k = "title" THEN 2 ELSE 1

MaxLen(k) ==
    CASE k \in {"title", "director", "location"} -> 255
      [] k = "budget" -> 100
      [] OTHER -> 50

TooSmallMessage(k) ==
    CASE k = "title" -> "Title must be at least 2 characters"
      [] k = "director" -> "Director is required"
      [] k = "budget" -> "Budget is required"
      [] k = "location" -> "Location is required"
      [] k = "duration" -> "Duration is required"
      [] OTHER -> "Year/Time is required"

\* The issues zod reports for one present field of insertMovieSchema.
FieldIssues(k, v) ==
    IF k = "type"
    THEN IF v \in TypeEnum THEN << >>
         ELSE <<"Type must be either Movie or TV Show">>
    ELSE (IF Len(v) < MinLen(k) THEN <<TooSmallMessage(k)>> ELSE << >>)
         \o (IF Len(v) > MaxLen(k)
             THEN <<"String must contain at most " \o ToString(MaxLen(k))
                    \o " character(s)">>
             ELSE << >>)

\* An object schema that passes unknown keys through
Passthrough(body) == body

\* z.object strips the keys the schema does not name.
Strip(body) == [k \in (DOMAIN body) \cap ContentFields |-> body[k]]

\* insertMovieSchema.safeParse(body).error.flatten().fieldErrors
InsertFieldErrors(body) ==
    LET bad == {k \in ContentFields :
                   k \notin DOMAIN body \/ FieldIssues(k, body[k]) # << >>}
    IN [k \in bad |-> IF k \in DOMAIN body THEN FieldIssues(k, body[k])
                      ELSE <<"Required">>]

\* insertMovieSchema.safeParse(body)
insertMovieSchema(body) ==
    LET errs == InsertFieldErrors(body)
    IN [success |-> (DOMAIN errs = {}), data |-> Strip(body),
        fieldErrors |-> errs, formErrors |-> << >>]

AtLeastOneField == "At least one field must be provided for update"

\* routes.ts:154-159, updateSchema.safeParse(body): every field optional, and
\* the refinement on the parsed object reports its issue with an empty path,
\* which flatten() files under formErrors.
updateSchema(body) ==
    LET data == Strip(body)
        errs == [k \in {f \in (DOMAIN data) \cap ContentFields :
                           FieldIssues(f, data[f]) # << >>}
                    |-> FieldIssues(k, data[k])]
        form == IF DOMAIN errs = {} /\ DOMAIN data = {}
                THEN <<AtLeastOneField>> ELSE << >>
    IN [success |-> (DOMAIN errs = {} /\ form = << >>), data |-> data,
        fieldErrors |-> errs, formErrors |-> form]

\* A parameter schema that accepts every string
AnyId(id) == TRUE

\* idParamSchema.safeParse(req.params).success
idParamSchema(id) == id \in Uuids

DefaultPage == 1
DefaultLimit == 10
LimitCeiling == 100

\* Number(text), the coercion of z.coerce.number(): a decimal numeral gives
\* its integer, "1.5" a number that is no integer, any other text NaN.  The
\* numerals are those of the numbers that queries are written with.
Numerals ==
    0..(Max(MaxPage, MaxLimit) + 1) \cup {DefaultLimit, LimitCeiling, LimitCeiling + 1}

Numeral == [n \in Numerals |-> ToString(n)]

\* A coercion that reads the leading digits: parseInt(text, 10)
parseInt(text) ==
    IF text = "1.5" THEN [nan |-> FALSE, int |-> TRUE, floor |-> 1]
    ELSE IF \E n \in DOMAIN Numeral : Numeral[n] = text
    THEN [nan |-> FALSE, int |-> TRUE,
          floor |-> CHOOSE n \in DOMAIN Numeral : Numeral[n] = text]
    ELSE [nan |-> TRUE, int |-> FALSE, floor |-> 0]

Number(text) ==
    IF \E n \in DOMAIN Numeral : Numeral[n] = text
    THEN [nan |-> FALSE, int |-> TRUE,
          floor |-> CHOOSE n \in DOMAIN Numeral : Numeral[n] = text]
    ELSE IF text = "1.5" THEN [nan |-> FALSE, int |-> FALSE, floor |-> 1]
    ELSE [nan |-> TRUE, int |-> FALSE, floor |-> 0]

\* The issues of z.coerce.number().int().min(1) and, with a ceiling, .max(100)
NumberIssues(n, ceiling) ==
    IF n.nan THEN <<"Expected number, received nan">>
    ELSE (IF ~n.int THEN <<"Expected integer, received float">> ELSE << >>)
         \o (IF n.floor < 1
             THEN <<"Number must be greater than or equal to 1">> ELSE << >>)
         \o (IF ceiling /\ n.floor > LimitCeiling
             THEN <<"Number must be less than or equal to 100">> ELSE << >>)

\* routes.ts:7-10, paginationSchema.safeParse(query)
paginationSchema(query) ==
    LET given == (DOMAIN query) \cap {"page", "limit"}
        errs == [k \in {f \in given :
                           NumberIssues(Number(query[f]), f = "limit") # << >>}
                    |-> NumberIssues(Number(query[k]), k = "limit")]
    IN [success |-> (DOMAIN errs = {}),
        data |-> [page |-> IF "page" \in given /\ "page" \notin DOMAIN errs
                           THEN Number(query.page).floor ELSE DefaultPage,
                  limit |-> IF "limit" \in given /\ "limit" \notin DOMAIN errs
                            THEN Number(query.limit).floor ELSE DefaultLimit],
        fieldErrors |-> errs]

\* Pagination whose page count is rounded down: Math.floor(total / limit)
calculatePaginationFloor(page, limit, total) ==
    LET pages == total \div limit
    IN [page |-> page, limit |-> limit, total |-> total, pages |-> pages,
        hasNext |-> (page < pages), hasPrev |-> (page > 1)]

\* Pagination over a count that is read when the response is built, after
\* the page was read
calculatePaginationLate(page, limit, total) ==
    LET late == Len(movies)
        pages == (late + limit - 1) \div limit
    IN [page |-> page, limit |-> limit, total |-> late, pages |-> pages,
        hasNext |-> (page < pages), hasPrev |-> (page > 1)]

\* routes.ts:16-26
calculatePagination(page, limit, total) ==
    LET pages == (total + limit - 1) \div limit
    IN [page |-> page, limit |-> limit, total |-> total, pages |-> pages,
        hasNext |-> (page < pages), hasPrev |-> (page > 1)]

(***************************************************************************)
(* server/storage.ts                                                       *)
(***************************************************************************)
Undefined == [undefined |-> TRUE]

Keys(m) == {m[i].k : i \in 1..Len(m)}

\* Array.from(map.values())
Values(m) == [i \in 1..Len(m) |-> m[i].v]

\* Map.prototype.get
MapGet(m, id) ==
    IF id \in Keys(m)
    THEN (CHOOSE p \in {m[i] : i \in 1..Len(m)} : p.k = id).v
    ELSE Undefined

\* A set that moves a key it already holds to the end of the iteration order
MapSetLast(m, id, movie) ==
    Append(SelectSeq(m, LAMBDA p : p.k # id), [k |-> id, v |-> movie])

\* Map.prototype.set: a present key keeps its place, a new key goes last.
MapSet(m, id, movie) ==
    IF id \in Keys(m)
    THEN [i \in 1..Len(m) |-> IF m[i].k = id THEN [k |-> id, v |-> movie] ELSE m[i]]
    ELSE Append(m, [k |-> id, v |-> movie])

\* Map.prototype.delete
MapDelete(m, id) == SelectSeq(m, LAMBDA p : p.k # id)

\* A sort whose comparator is reversed: (a, b) => a.createdAt - b.createdAt
RECURSIVE SortByCreatedAsc(_)
SortByCreatedAsc(s) ==
    IF s = << >> THEN << >>
    ELSE LET e == s[Len(s)]
             t == SortByCreatedAsc(SubSeq(s, 1, Len(s) - 1))
         IN SelectSeq(t, LAMBDA x : x.createdAt <= e.createdAt)
            \o <<e>>
            \o SelectSeq(t, LAMBDA x : x.createdAt > e.createdAt)

\* Array.prototype.sort((a, b) => b.createdAt - a.createdAt): a stable sort,
\* computed by inserting each element after those that do not sort after it.
RECURSIVE SortByCreatedDesc(_)
SortByCreatedDesc(s) ==
    IF s = << >> THEN << >>
    ELSE LET e == s[Len(s)]
             t == SortByCreatedDesc(SubSeq(s, 1, Len(s) - 1))
         IN SelectSeq(t, LAMBDA x : x.createdAt >= e.createdAt)
            \o <<e>>
            \o SelectSeq(t, LAMBDA x : x.createdAt < e.createdAt)

\* A slice that takes the element at index end as well
SliceThrough(s, start, end) ==
    SubSeq(s, Min(start, Len(s)) + 1, Min(end + 1, Len(s)))

\* Array.prototype.slice(start, end) for 0 <= start <= end
Slice(s, start, end) == SubSeq(s, Min(start, Len(s)) + 1, Min(end, Len(s)))

\* An offset that is one page too far: page * limit
SkipFromPage(page, limit) == page * limit

\* storage.ts:21
Skip(page, limit) == (page - 1) * limit

\* storage.ts:22-23, the array that getAllMovies slices
AllMovies(m) == SortByCreatedDesc(Values(m))

\* MemStorage.getAllMovies
getAllMovies(m, page, limit) ==
    Slice(AllMovies(m), Skip(page, limit), Skip(page, limit) + limit)

\* A lookup over a soft-deleting store: a deleted id yields a tombstone
getMovieSoft(m, id) ==
    IF id \in Keys(m) THEN MapGet(m, id)
    ELSE IF \E i \in 1..Len(created) : created[i] = id
         THEN [id |-> id, deleted |-> TRUE]
         ELSE Undefined

\* MemStorage.getMovie
getMovie(m, id) == MapGet(m, id)

\* A count kept beside the map that deleteMovie does not lower
CountCreated(m) == Len(created)

\* MemStorage.getMoviesCount
getMoviesCount(m) == Len(m)

\* The ids randomUUID() has returned so far
Issued == {created[i] : i \in 1..Len(created)}

\* An id generator that looks only at the ids now in the map
ReusedId == CHOOSE id \in Uuids \ Keys(movies) : \A other \in Uuids \ Keys(movies) : id <= other

\* const id = randomUUID()
randomUUID == CHOOSE id \in Uuids \ Issued : \A other \in Uuids \ Issued : id <= other

\* { ...a, ...b }
Spread(a, b) ==
    [k \in (DOMAIN a) \cup (DOMAIN b) |-> IF k \in DOMAIN b THEN b[k] ELSE a[k]]

\* A Movie whose updatedAt is not taken from the clock
NewMovieEpoch(insertMovie, id, t) ==
    Spread(insertMovie, [id |-> id, createdAt |-> t, updatedAt |-> 0])

\* storage.ts:38-43, the Movie that createMovie builds
NewMovie(insertMovie, id, t) ==
    Spread(insertMovie, [id |-> id, createdAt |-> t, updatedAt |-> t])

\* A create that reads the clock once for the stored entry and once more
\* for the entry it returns
createMovieSecondClock(m, insertMovie, id, t) ==
    MapSet(m, id, NewMovie(insertMovie, id, t + 1))

\* MemStorage.createMovie: the map after the call
createMovie(m, insertMovie, id, t) == MapSet(m, id, NewMovie(insertMovie, id, t))

\* A Movie that replaces the existing fields instead of merging over them
ReplacedMovie(existingMovie, updateData, t) ==
    Spread(updateData, [id |-> existingMovie.id, createdAt |-> existingMovie.createdAt,
                        updatedAt |-> t])

\* A Movie merged over the copy that the handler's existence check read,
\* whatever the map holds by now
MergedOverRead(existingMovie, updateData, t) ==
    LET r == CHOOSE c \in Reqs :
                 /\ req[c].pc = "put.got"
                 /\ req[c].existingMovie # Undefined
                 /\ req[c].id = existingMovie.id
                 /\ req[c].data = updateData
    IN Spread(Spread(req[r].existingMovie, updateData), [updatedAt |-> t])

\* storage.ts:53-57, the Movie that updateMovie builds
UpdatedMovie(existingMovie, updateData, t) ==
    Spread(Spread(existingMovie, updateData), [updatedAt |-> t])

\* An update that never throws: it stores the merged fields under any id
Upserts(m, id) == FALSE

\* storage.ts:49-52: the call throws Error("Movie not found")
updateMovieThrows(m, id) == MapGet(m, id) = Undefined

\* MemStorage.updateMovie: the map after a call that does not throw
updateMovie(m, id, updateData, t) ==
    MapSet(m, id, UpdatedMovie(MapGet(m, id), updateData, t))

\* A delete that removes nothing
KeepAll(m, id) == m

\* MemStorage.deleteMovie: the map after the call
deleteMovie(m, id) == MapDelete(m, id)

(***************************************************************************)
(* Inputs                                                                  *)
(***************************************************************************)
Dune ==
    [title |-> "Dune", type |-> "Movie", director |-> "Denis Villeneuve",
     budget |-> "$165M", location |-> "Jordan", duration |-> "155 min",
     yearTime |-> "2021"]

EmptyBody == [k \in {} |-> ""]

\* InsertMovie values handed to createMovie
InsertInputs == {Dune}

\* Partial<InsertMovie> values handed to updateMovie
UpdateInputs == {[budget |-> "$1M"], EmptyBody}

NoCall == [op |-> "none"]

\* A POST body that lacks five fields and breaks the rules of the other two
Sparse == [title |-> "D", type |-> "Series"]

\* Bodies of POST /api/movies
PostBodies == {Dune, [Dune EXCEPT !.title = "D"], Sparse}

\* A PUT body that names the server-assigned fields beside a content field
Forged ==
    [budget |-> "$2M", id |-> BadId, createdAt |-> MaxClock + 1,
     updatedAt |-> MaxClock + 1]

\* A PUT body that supplies a field no other body supplies
Relocated == [location |-> "Wadi Rum"]

\* Bodies of PUT requests that race for one entry: two with disjoint fields
\* and one that supplies the same field as another
RacingBodies == {[budget |-> "$1M"], Relocated, Forged}

\* Bodies of PUT /api/movies/:id
PutBodies == {[budget |-> "$1M"], [title |-> "D"], EmptyBody, Forged}

\* Query strings of GET /api/movies
ListQueries ==
    {[page |-> ToString(p), limit |-> ToString(l)] :
         p \in 1..MaxPage, l \in 1..MaxLimit}
    \cup {EmptyBody, [limit |-> "0"]}

\* Query strings at and beyond the edges of the schema: either parameter
\* left out, and values below, above and outside the integers
EdgeQueries ==
    {[page |-> "0"], [page |-> "1.5"], [page |-> ToString(MaxPage)],
     [page |-> "1", limit |-> "ten"], [limit |-> ToString(LimitCeiling)],
     [limit |-> ToString(LimitCeiling + 1)]}

\* Path parameters :id
ParamIds == Uuids \cup {BadId}

(***************************************************************************)
(* Initial state: new MemStorage(), no request in flight.                  *)
(***************************************************************************)
Idle == [pc |-> "idle"]

\* movies.tsx:46-48, MoviesPage as it mounts: page 1, nothing shown, more to
\* come.  loaded is the last page whose response the page has taken in,
\* limit the page size of the walk, first the total that the response for
\* page 1 reported.
Mounted ==
    [page |-> 1, allMovies |-> << >>, hasMore |-> TRUE,
     loaded |-> 0, limit |-> 0, first |-> 0]

Init ==
    /\ movies = << >>
    /\ now = 0
    /\ created = << >>
    /\ obs = NoCall
    /\ req = [r \in Reqs |-> Idle]
    /\ started = 0
    /\ client = Mounted

\* The clock advances by a millisecond.
Tick ==
    /\ now < MaxClock
    /\ now' = now + 1
    /\ UNCHANGED <<movies, created, obs, req, started, client>>

(***************************************************************************)
(* Direct calls of the MemStorage methods.                                 *)
(***************************************************************************)
StoreCreate(insertMovie) ==
    /\ Len(created) < MaxCreates
    /\ movies' = createMovie(movies, insertMovie, randomUUID, now)
    /\ created' = Append(created, randomUUID)
    /\ obs' = NoCall
    /\ UNCHANGED <<now, req, started, client>>

StoreUpdate(id, updateData) ==
    /\ ~updateMovieThrows(movies, id)
    /\ movies' = updateMovie(movies, id, updateData, now)
    /\ obs' = NoCall
    /\ UNCHANGED <<now, created, req, started, client>>

\* A call that throws: the caller sees the error, the map is not written.
StoreUpdateThrows(id, updateData) ==
    /\ updateMovieThrows(movies, id)
    /\ obs' = [op |-> "updateMovie", id |-> id, error |-> "Movie not found"]
    /\ UNCHANGED <<movies, now, created, req, started, client>>

StoreDelete(id) ==
    /\ movies' = deleteMovie(movies, id)
    /\ obs' = NoCall
    /\ UNCHANGED <<now, created, req, started, client>>

StoreList(page, limit) ==
    /\ obs' = [op |-> "getAllMovies", page |-> page, limit |-> limit,
               result |-> getAllMovies(movies, page, limit)]
    /\ UNCHANGED <<movies, now, created, req, started, client>>

StoreNext ==
    \/ Tick
    \/ \E insertMovie \in InsertInputs : StoreCreate(insertMovie)
    \/ \E id \in Uuids, updateData \in UpdateInputs : StoreUpdate(id, updateData)
    \/ \E id \in Uuids, updateData \in UpdateInputs :
          StoreUpdateThrows(id, updateData)
    \/ \E id \in Uuids : StoreDelete(id)
    \/ \E page \in 1..MaxPage, limit \in 1..MaxLimit : StoreList(page, limit)

StoreSpec == Init /\ [][StoreNext]_vars

(***************************************************************************)
(* server/routes.ts: one action per synchronous stretch of a handler.  A   *)
(* handler runs from its start, or from the point where an awaited store   *)
(* call settled, to its next await or to its response; the MemStorage      *)
(* methods hold no await, so a call reads or writes the map at the moment  *)
(* it is made.  Handlers of different requests interleave at the awaits.   *)
(***************************************************************************)
\* Connection r carries no request in flight, and a request arrives on it.
Receive(r) ==
    /\ req[r].pc \in {"idle", "done"}
    /\ started < MaxRequests
    /\ started' = started + 1

Respond(r, response) ==
    req' = [req EXCEPT ![r] = Spread([pc |-> "done"], response)]

Await(r, frame) == req' = [req EXCEPT ![r] = frame]

\* routes.ts:59-66 and the like: the catch block of a handler
InternalError(op, message) ==
    [op |-> op, status |-> 500, message |-> "Internal server error", error |-> message]

\* GET /api/movies, up to the await of Promise.all: both store calls are made
\* while the array literal is evaluated.
StartList(r, query) ==
    /\ Receive(r)
    /\ LET validation == paginationSchema(query)
           page == validation.data.page
           limit == validation.data.limit
       IN IF ~validation.success
          THEN Respond(r, [op |-> "LIST", status |-> 400,
                           message |-> "Validation failed",
                           errors |-> validation.fieldErrors])
          ELSE Await(r, [pc |-> "list", op |-> "LIST", page |-> page, limit |-> limit,
                         movies |-> getAllMovies(movies, page, limit),
                         total |-> getMoviesCount(movies)])
    /\ UNCHANGED <<movies, now, created, obs, client>>

ListRespond(r) ==
    /\ req[r].pc = "list"
    /\ Respond(r, [op |-> "LIST", status |-> 200,
                   message |-> "Movies retrieved successfully",
                   data |-> req[r].movies,
                   pagination |->
                       calculatePagination(req[r].page, req[r].limit, req[r].total)])
    /\ UNCHANGED <<movies, now, created, obs, started, client>>

\* POST /api/movies, up to the await of createMovie
StartCreate(r, body) ==
    /\ Receive(r)
    /\ IF ~insertMovieSchema(body).success
       THEN /\ Respond(r, [op |-> "POST", status |-> 400,
                           message |-> "Validation failed",
                           errors |-> insertMovieSchema(body).fieldErrors])
            /\ UNCHANGED <<movies, created>>
       ELSE /\ Len(created) < MaxCreates
            /\ movies' = createMovie(movies, insertMovieSchema(body).data, randomUUID, now)
            /\ created' = Append(created, randomUUID)
            /\ Await(r, [pc |-> "post", op |-> "POST",
                         movie |-> NewMovie(insertMovieSchema(body).data, randomUUID, now)])
    /\ UNCHANGED <<now, obs, client>>

CreateRespond(r) ==
    /\ req[r].pc = "post"
    /\ Respond(r, [op |-> "POST", status |-> 201,
                   message |-> "Movie created successfully", data |-> req[r].movie])
    /\ UNCHANGED <<movies, now, created, obs, started, client>>

InvalidId(op, id) ==
    [op |-> op, id |-> id, status |-> 400, message |-> "Invalid movie ID format",
     errors |-> [k \in {"id"} |-> <<"Invalid movie ID format">>]]

NotFound(op, id) ==
    [op |-> op, id |-> id, status |-> 404, message |-> "Movie not found"]

\* GET /api/movies/:id, up to the await of getMovie
StartGet(r, id) ==
    /\ Receive(r)
    /\ IF ~idParamSchema(id)
       THEN Respond(r, InvalidId("GET", id))
       ELSE Await(r, [pc |-> "get", op |-> "GET", id |-> id,
                      movie |-> getMovie(movies, id)])
    /\ UNCHANGED <<movies, now, created, obs, client>>

GetRespond(r) ==
    /\ req[r].pc = "get"
    /\ IF req[r].movie = Undefined
       THEN Respond(r, NotFound("GET", req[r].id))
       ELSE Respond(r, [op |-> "GET", id |-> req[r].id, status |-> 200,
                        message |-> "Movie retrieved successfully",
                        data |-> req[r].movie])
    /\ UNCHANGED <<movies, now, created, obs, started, client>>

\* PUT /api/movies/:id, up to the await of getMovie
StartPut(r, id, body) ==
    /\ Receive(r)
    /\ IF ~idParamSchema(id)
       THEN Respond(r, InvalidId("PUT", id))
       ELSE IF ~updateSchema(body).success
       THEN Respond(r, [op |-> "PUT", id |-> id, status |-> 400,
                        message |-> "Validation failed",
                        errors |-> updateSchema(body).fieldErrors])
       ELSE Await(r, [pc |-> "put.got", op |-> "PUT", id |-> id,
                      data |-> updateSchema(body).data,
                      existingMovie |-> getMovie(movies, id)])
    /\ UNCHANGED <<movies, now, created, obs, client>>

\* routes.ts:172-179: the existence check, then the call of updateMovie,
\* which throws when the map no longer holds the id.
PutAfterGet(r) ==
    /\ req[r].pc = "put.got"
    /\ IF req[r].existingMovie = Undefined
       THEN /\ Respond(r, NotFound("PUT", req[r].id))
            /\ UNCHANGED movies
       ELSE IF updateMovieThrows(movies, req[r].id)
       THEN /\ Await(r, [pc |-> "put.updated", op |-> "PUT", id |-> req[r].id,
                         data |-> req[r].data, threw |-> TRUE])
            /\ UNCHANGED movies
       ELSE /\ movies' = updateMovie(movies, req[r].id, req[r].data, now)
            /\ Await(r, [pc |-> "put.updated", op |-> "PUT", id |-> req[r].id,
                         data |-> req[r].data, threw |-> FALSE,
                         updatedMovie |->
                             UpdatedMovie(getMovie(movies, req[r].id), req[r].data, now)])
    /\ UNCHANGED <<now, created, obs, started, client>>

PutRespond(r) ==
    /\ req[r].pc = "put.updated"
    /\ IF req[r].threw
       THEN Respond(r, Spread(InternalError("PUT", "Movie not found"),
                              [id |-> req[r].id]))
       ELSE Respond(r, [op |-> "PUT", id |-> req[r].id, status |-> 200,
                        message |-> "Movie updated successfully",
                        data |-> req[r].updatedMovie])
    /\ UNCHANGED <<movies, now, created, obs, started, client>>

\* Some connection shows the 200 of a DELETE of this id (history: the request
\* that starts now starts after that response).
Deleted200(id) ==
    \E o \in Reqs : /\ req[o].pc = "done" /\ req[o].op = "DELETE"
                    /\ req[o].id = id /\ req[o].status = 200

\* DELETE /api/movies/:id, up to the await of getMovie
StartDelete(r, id) ==
    /\ Receive(r)
    /\ IF ~idParamSchema(id)
       THEN Respond(r, InvalidId("DELETE", id))
       ELSE Await(r, [pc |-> "delete.got", op |-> "DELETE", id |-> id,
                      existingMovie |-> getMovie(movies, id),
                      after200 |-> Deleted200(id)])
    /\ UNCHANGED <<movies, now, created, obs, client>>

\* routes.ts:214-221: the existence check, then the call of deleteMovie
DeleteAfterGet(r) ==
    /\ req[r].pc = "delete.got"
    /\ IF req[r].existingMovie = Undefined
       THEN /\ Respond(r, Spread(NotFound("DELETE", req[r].id),
                                 [after200 |-> req[r].after200]))
            /\ UNCHANGED movies
       ELSE /\ movies' = deleteMovie(movies, req[r].id)
            /\ Await(r, [pc |-> "delete.deleted", op |-> "DELETE", id |-> req[r].id,
                         after200 |-> req[r].after200])
    /\ UNCHANGED <<now, created, obs, started, client>>

DeleteRespond(r) ==
    /\ req[r].pc = "delete.deleted"
    /\ Respond(r, [op |-> "DELETE", id |-> req[r].id, status |-> 200,
                   message |-> "Movie deleted successfully", data |-> Undefined,
                   after200 |-> req[r].after200])
    /\ UNCHANGED <<movies, now, created, obs, started, client>>

Next ==
    \/ Tick
    \/ \E r \in Reqs, query \in ListQueries : StartList(r, query)
    \/ \E r \in Reqs : ListRespond(r)
    \/ \E r \in Reqs, body \in PostBodies : StartCreate(r, body)
    \/ \E r \in Reqs : CreateRespond(r)
    \/ \E r \in Reqs, id \in ParamIds : StartGet(r, id)
    \/ \E r \in Reqs : GetRespond(r)
    \/ \E r \in Reqs, id \in ParamIds, body \in PutBodies : StartPut(r, id, body)
    \/ \E r \in Reqs : PutAfterGet(r)
    \/ \E r \in Reqs : PutRespond(r)
    \/ \E r \in Reqs, id \in ParamIds : StartDelete(r, id)
    \/ \E r \in Reqs : DeleteAfterGet(r)
    \/ \E r \in Reqs : DeleteRespond(r)

Spec == Init /\ [][Next]_vars

(***************************************************************************)
(* The API with each request handled to its response before the next one   *)
(* is received: no handler suspends while another runs.                    *)
(***************************************************************************)
InFlight(r) == req[r].pc \notin {"idle", "done"}

\* No request is in flight on a connection other than r.
Serial(r) == \A o \in Reqs \ {r} : ~InFlight(o)

SerialNext ==
    \/ Tick
    \/ \E r \in Reqs, query \in ListQueries : Serial(r) /\ StartList(r, query)
    \/ \E r \in Reqs : ListRespond(r)
    \/ \E r \in Reqs, body \in PostBodies : Serial(r) /\ StartCreate(r, body)
    \/ \E r \in Reqs : CreateRespond(r)
    \/ \E r \in Reqs, id \in ParamIds : Serial(r) /\ StartGet(r, id)
    \/ \E r \in Reqs : GetRespond(r)
    \/ \E r \in Reqs, id \in ParamIds, body \in PutBodies :
          Serial(r) /\ StartPut(r, id, body)
    \/ \E r \in Reqs : PutAfterGet(r)
    \/ \E r \in Reqs : PutRespond(r)
    \/ \E r \in Reqs, id \in ParamIds : Serial(r) /\ StartDelete(r, id)
    \/ \E r \in Reqs : DeleteAfterGet(r)
    \/ \E r \in Reqs : DeleteRespond(r)

SerialSpec == Init /\ [][SerialNext]_vars

(***************************************************************************)
(* GET /api/movies with query strings of every kind, over a store that     *)
(* POST requests fill.                                                     *)
(***************************************************************************)
ListNext ==
    \/ Tick
    \/ \E r \in Reqs, query \in ListQueries \cup EdgeQueries : StartList(r, query)
    \/ \E r \in Reqs : ListRespond(r)
    \/ \E r \in Reqs, body \in PostBodies : StartCreate(r, body)
    \/ \E r \in Reqs : CreateRespond(r)

ListSpec == Init /\ [][ListNext]_vars

(***************************************************************************)
(* PUT requests that race for an entry, with POST and DELETE requests.     *)
(***************************************************************************)
PutNext ==
    \/ Tick
    \/ \E r \in Reqs, body \in InsertInputs : StartCreate(r, body)
    \/ \E r \in Reqs : CreateRespond(r)
    \/ \E r \in Reqs, id \in Uuids, body \in RacingBodies : StartPut(r, id, body)
    \/ \E r \in Reqs : PutAfterGet(r)
    \/ \E r \in Reqs : PutRespond(r)
    \/ \E r \in Reqs, id \in Uuids : StartDelete(r, id)
    \/ \E r \in Reqs : DeleteAfterGet(r)
    \/ \E r \in Reqs : DeleteRespond(r)

PutSpec == Init /\ [][PutNext]_vars

(***************************************************************************)
(* A page that walks the list while other clients create entries.          *)
(* movies.tsx:69-103.  The page asks for limit=10; the walk here takes a   *)
(* page size from 1..MaxLimit with its first request and keeps it.         *)
(***************************************************************************)
\* A setAllMovies that shows the page just received in place of the list
showLast(prev, data) == data

\* movies.tsx:90-94, the updater of setAllMovies: the entries of the
\* response whose id is not shown yet go after those shown.
appendNew(prev, data) ==
    LET existingIds == {prev[i].id : i \in 1..Len(prev)}
    IN prev \o SelectSeq(data, LAMBDA m : m.id \notin existingIds)

\* movies.tsx:69-86, useQuery: enabled while hasMore, the request for the
\* current page goes out when the page holds no response for it.
WalkFetch(limit) ==
    /\ client.hasMore
    /\ client.loaded < client.page
    /\ req["a"].pc = "idle"
    /\ client.page \in Numerals
    /\ client.page = 1 \/ limit = client.limit
    /\ StartList("a", [page |-> Numeral[client.page], limit |-> Numeral[limit]])

\* movies.tsx:88-97, useEffect on data: the response reaches the page.
WalkReceive ==
    /\ req["a"].pc = "done"
    /\ req["a"].op = "LIST" /\ req["a"].status = 200
    /\ client' = [client EXCEPT
                     !.allMovies = appendNew(@, req["a"].data),
                     !.hasMore = req["a"].pagination.hasNext,
                     !.loaded = client.page,
                     !.limit = req["a"].pagination.limit,
                     !.first = IF client.page = 1
                               THEN req["a"].pagination.total ELSE @]
    /\ req' = [req EXCEPT !["a"] = Idle]
    /\ UNCHANGED <<movies, now, created, obs, started>>

\* movies.tsx:99-103, loadMore: not fetching and more to come.
LoadMore ==
    /\ client.hasMore
    /\ client.loaded = client.page
    /\ client' = [client EXCEPT !.page = @ + 1]
    /\ UNCHANGED <<movies, now, created, obs, req, started>>

WalkNext ==
    \/ Tick
    \/ \E insertMovie \in InsertInputs : StoreCreate(insertMovie)
    \/ \E limit \in 1..MaxLimit : WalkFetch(limit)
    \/ ListRespond("a")
    \/ WalkReceive
    \/ LoadMore

WalkSpec == Init /\ [][WalkNext]_vars

(***************************************************************************)
(* Properties of the store                                                 *)
(***************************************************************************)
\* The step is a createMovie call; NewId is the id it returned.
IsCreate == Len(created') = Len(created) + 1
NewId == created'[Len(created')]

\* Position of key id in the map's insertion order
MapIndex(m, id) == CHOOSE i \in 1..Len(m) : m[i].k = id

\* s is ordered by createdAt descending, ties in the map's insertion order
OrderedDesc(s, m) ==
    \A i, j \in 1..Len(s) :
        i < j => /\ s[i].createdAt >= s[j].createdAt
                 /\ (s[i].createdAt = s[j].createdAt
                        => MapIndex(m, s[i].id) < MapIndex(m, s[j].id))

\* C1: no two createMovie calls return the same id; since every deleted id
\* was returned by an earlier call, a deleted id is never assigned again.
C1_IdsNeverRepeat ==
    \A i, j \in 1..Len(created) : i # j => created[i] # created[j]

\* C1 witness: ids were assigned, two of them deleted, and one entry is live.
C1_Witness ==
    /\ Len(created) = 3
    /\ Keys(movies) = {created[3]}

\* C2: the array list pages over is ordered by createdAt descending with
\* ties in insertion order, and so is every page a list call returned on
\* the current map; the page is the one the map and arguments determine.
C2_ListOrdered ==
    /\ OrderedDesc(AllMovies(movies), movies)
    /\ Len(AllMovies(movies)) = Len(movies)
    /\ obs.op = "getAllMovies" =>
          /\ OrderedDesc(obs.result, movies)
          /\ obs.result = getAllMovies(movies, obs.page, obs.limit)

\* C2 witness: a page of two entries created in the same millisecond was
\* listed from a map that also holds an entry of another millisecond.
C2_Witness ==
    /\ obs.op = "getAllMovies"
    /\ Len(obs.result) = 2
    /\ obs.result[1].createdAt = obs.result[2].createdAt
    /\ \E i \in 1..Len(movies) : movies[i].v.createdAt # obs.result[1].createdAt

\* list(1, L) \o list(2, L) \o ... \o list(pages, L)
RECURSIVE Walk(_, _, _)
Walk(m, pages, limit) ==
    IF pages = 0 THEN << >>
    ELSE Walk(m, pages - 1, limit) \o getAllMovies(m, pages, limit)

CeilDiv(n, d) == (n + d - 1) \div d

\* C3: for every page size L the pages 1..ceil(N/L) together hold each of
\* the N entries exactly once, in createdAt-descending order.
C3_PaginationComplete ==
    \A limit \in 1..MaxLimit :
        LET n == getMoviesCount(movies)
            w == Walk(movies, CeilDiv(n, limit), limit)
        IN /\ Len(w) = n
           /\ \A i \in 1..Len(movies) :
                 Cardinality({j \in 1..Len(w) : w[j] = movies[i].v}) = 1
           /\ \A i, j \in 1..Len(w) : i < j => w[i].createdAt >= w[j].createdAt

\* C3 witness: three entries, and the second page of size two (the last,
\* partial page of the walk) has been listed.
C3_Witness ==
    /\ getMoviesCount(movies) = 3
    /\ obs.op = "getAllMovies" /\ obs.page = 2 /\ obs.limit = 2
    /\ Len(obs.result) = 1

\* C5: createMovie stores an entry with createdAt = updatedAt; no step
\* lowers the updatedAt of a stored entry; createdAt <= updatedAt always.
C5_Timestamps ==
    /\ [][/\ IsCreate =>
              MapGet(movies', NewId).createdAt = MapGet(movies', NewId).updatedAt
          /\ \A id \in Keys(movies) \cap Keys(movies') :
                MapGet(movies', id).updatedAt >= MapGet(movies, id).updatedAt]_vars
    /\ [](\A i \in 1..Len(movies) : movies[i].v.createdAt <= movies[i].v.updatedAt)

\* C5 witness: an entry was updated in a later millisecond than it was created.
C5_Witness ==
    \E i \in 1..Len(movies) : movies[i].v.updatedAt > movies[i].v.createdAt

\* s without the entries whose id is id
Without(s, id) == SelectSeq(s, LAMBDA x : x.id # id)

\* C7: after a createMovie call the new entry is first in the list order
\* and the entries that existed before keep their relative order.
C7_NewEntryFirst ==
    [][IsCreate =>
          /\ AllMovies(movies')[1].id = NewId
          /\ Without(AllMovies(movies'), NewId) = AllMovies(movies)]_vars

\* C10: an updateMovie call that succeeds sets the supplied fields and
\* updatedAt of the targeted entry, keeps its other fields, keeps every
\* other entry and its place, and keeps the count.
C10_UpdateFrame ==
    [][\A id \in Uuids, updateData \in UpdateInputs :
          StoreUpdate(id, updateData) =>
             LET old == MapGet(movies, id)
                 new == MapGet(movies', id)
             IN /\ getMoviesCount(movies') = getMoviesCount(movies)
                /\ \A i \in 1..Len(movies) :
                      /\ movies'[i].k = movies[i].k
                      /\ movies[i].k # id => movies'[i] = movies[i]
                /\ DOMAIN new = DOMAIN old
                /\ \A k \in DOMAIN updateData : new[k] = updateData[k]
                /\ new.updatedAt = now
                /\ \A k \in (DOMAIN old) \ ((DOMAIN updateData) \cup {"updatedAt"}) :
                      new[k] = old[k]]_vars

\* C10 witness: one entry carries the updated budget, its original title and
\* a later updatedAt, beside another entry that no update touched.
C10_Witness ==
    \E i, j \in 1..Len(movies) :
        /\ movies[i].v.budget = "$1M" /\ movies[i].v.title = "Dune"
        /\ movies[i].v.updatedAt > movies[i].v.createdAt
        /\ movies[j].v.budget = "$165M"
        /\ movies[j].v.updatedAt = movies[j].v.createdAt

(***************************************************************************)
(* Properties of the HTTP API                                              *)
(***************************************************************************)
Done(r, op) == req[r].pc = "done" /\ req[r].op = op

\* C4: a DELETE that starts after a DELETE of the same id was answered 200
\* is answered 404.
C4_SecondDelete404 ==
    \A r \in Reqs :
        (Done(r, "DELETE") /\ "after200" \in DOMAIN req[r] /\ req[r].after200)
            => req[r].status = 404

\* C4 witness: one connection shows the 200 of the first DELETE, the other
\* the 404 of the DELETE of the same id that started after it.
C4_Witness ==
    \E r, o \in Reqs :
        /\ Done(o, "DELETE") /\ req[o].status = 200
        /\ Done(r, "DELETE") /\ req[r].id = req[o].id
        /\ req[r].status = 404 /\ req[r].after200

\* C6: a PUT whose target is absent at the existence check, or gone when
\* updateMovie is called, is answered 404.
C6_MissingTarget404 ==
    [][\A r \in Reqs :
          /\ (PutAfterGet(r) /\ req[r].existingMovie = Undefined)
                => req'[r].status = 404
          /\ (PutRespond(r) /\ req[r].threw) => req'[r].status = 404]_vars

\* Every text a response carries: its message and its field errors
ResponseTexts(response) ==
    {response.message} \cup
    (IF "errors" \in DOMAIN response
     THEN UNION {{response.errors[k][i] : i \in 1..Len(response.errors[k])} :
                    k \in DOMAIN response.errors}
     ELSE {})

\* C8: a PUT of {} to an existing id is answered 400, the response carries
\* the at-least-one-field message, and the map is unchanged.
C8_EmptyBodyRejected ==
    [][\A r \in Reqs, id \in Uuids :
          (StartPut(r, id, EmptyBody) /\ id \in Keys(movies)) =>
             /\ req'[r].status = 400
             /\ AtLeastOneField \in ResponseTexts(req'[r])
             /\ movies' = movies]_vars

MovieFields == ContentFields \cup OmittedFields

\* e is an entry with every field of a Movie, stored under key id
Whole(id, e) == DOMAIN e = MovieFields /\ e.id = id

\* The step leaves the map alone or applies one whole mutation to it.
WholeMutation ==
    \/ movies' = movies
    \/ \E e \in {movies'[i].v : i \in 1..Len(movies')} :
          /\ movies' = Append(movies, [k |-> e.id, v |-> e])
          /\ e.id \notin Keys(movies)
          /\ e.createdAt = now /\ e.updatedAt = now
    \/ \E r \in Reqs, i \in 1..Len(movies) :
          /\ req[r].pc = "put.got" /\ req[r].id = movies[i].k
          /\ movies' = [movies EXCEPT ![i].v =
                 [k \in MovieFields |->
                     IF k = "updatedAt" THEN now
                     ELSE IF k \in DOMAIN req[r].data THEN req[r].data[k]
                     ELSE movies[i].v[k]]]
    \/ \E id \in Keys(movies) : movies' = SelectSeq(movies, LAMBDA p : p.k # id)

\* What the handler on connection r read from the map in this step is what
\* the map holds: a whole entry or none, and a page that agrees with the count.
ReadsWhole(r) ==
    /\ (req'[r].pc = "get" /\ req[r].pc # "get") =>
          IF req'[r].id \in Keys(movies)
          THEN \E i \in 1..Len(movies) :
                  /\ movies[i].k = req'[r].id /\ movies[i].v = req'[r].movie
                  /\ Whole(req'[r].id, req'[r].movie)
          ELSE req'[r].movie = Undefined
    /\ (req'[r].pc = "list" /\ req[r].pc # "list") =>
          /\ req'[r].total = Len(movies)
          /\ Len(req'[r].movies) =
                Min(req'[r].limit,
                    Max(0, req'[r].total - (req'[r].page - 1) * req'[r].limit))
          /\ \A j \in 1..Len(req'[r].movies) :
                \E i \in 1..Len(movies) : movies[i].v = req'[r].movies[j]

\* C9: every step applies no mutation or one whole mutation, every stored
\* entry is whole, and a get or a list with its count reads the map of one
\* state.
C9_MutationsAtomic ==
    [][/\ WholeMutation
       /\ \A i \in 1..Len(movies') : Whole(movies'[i].k, movies'[i].v)
       /\ \A r \in Reqs : ReadsWhole(r)]_vars

\* C9 witness: a page of one entry and its count were read, and before that
\* response went out a DELETE on the other connection emptied the map.
C9_Witness ==
    \E r, o \in Reqs :
        /\ req[r].pc = "list" /\ req[r].total = 1 /\ Len(req[r].movies) = 1
        /\ req[o].pc = "delete.deleted"
        /\ movies = << >>

\* C11: every entry is stored under the key equal to its own id; a create
\* stores its entry under the id it returned with createdAt read from the
\* clock; and no step, whatever a PUT body carries, changes the id or the
\* createdAt of an entry that stays in the map.
C11_IdentityImmutable ==
    /\ [](\A i \in 1..Len(movies) : movies[i].v.id = movies[i].k)
    /\ [][/\ IsCreate => /\ MapGet(movies', NewId).id = NewId
                         /\ MapGet(movies', NewId).createdAt = now
          /\ \A id \in Keys(movies) \cap Keys(movies') :
                /\ MapGet(movies', id).id = MapGet(movies, id).id
                /\ MapGet(movies', id).createdAt = MapGet(movies, id).createdAt]_vars

\* C11 witness: a PUT whose body named id, createdAt and updatedAt was applied
\* in a later millisecond than the entry was created, and answered 200.
C11_Witness ==
    \E r \in Reqs :
        /\ Done(r, "PUT") /\ req[r].status = 200
        /\ req[r].data.budget = Forged.budget
        /\ req[r].data.updatedAt > req[r].data.createdAt

\* The step is a handler's call of updateMovie or deleteMovie for id.
Touches(id) ==
    \E r \in Reqs : (PutAfterGet(r) \/ DeleteAfterGet(r)) /\ req[r].id = id

\* C12: the entry a POST stores is the entry its 201 returns and carries the
\* submitted fields; a step that is no update or delete of an id leaves that
\* id's entry as it is; a GET answers 200 with the entry stored when it
\* reads.  Hence a GET of the returned id, with no update or delete of it in
\* between, returns the entry of the 201: checked end to end on the
\* behaviours that consist of the POST and the GET (a GET that read the map
\* before the POST stored its entry is answered 404).
C12_RoundTrip ==
    /\ [][\A r \in Reqs :
            /\ \A body \in PostBodies :
                  (IsCreate /\ req'[r].pc = "post" /\ StartCreate(r, body)) =>
                     /\ getMovie(movies', NewId) = req'[r].movie
                     /\ req'[r].movie.id = NewId
                     /\ \A k \in ContentFields : req'[r].movie[k] = body[k]
            /\ CreateRespond(r) =>
                  req'[r].status = 201 /\ req'[r].data = req[r].movie
            /\ \A id \in Keys(movies) :
                  getMovie(movies', id) = getMovie(movies, id) \/ Touches(id)
            /\ \A id \in Uuids :
                  (req'[r].pc = "get" /\ StartGet(r, id)) =>
                     req'[r].movie = getMovie(movies, id)
            /\ (GetRespond(r) /\ req[r].movie # Undefined) =>
                  req'[r].status = 200 /\ req'[r].data = req[r].movie]_vars
    /\ [](\A r, o \in Reqs :
            (/\ started = 2
             /\ Done(o, "POST") /\ req[o].status = 201
             /\ Done(r, "GET") /\ req[r].id = req[o].data.id
             /\ req[r].status = 200)
                => req[r].data = req[o].data)

\* C12 witness: a 201 and, fetched in a later millisecond, the 200 of a GET of
\* the returned id with the same entry.
C12_Witness ==
    \E r, o \in Reqs :
        /\ Done(o, "POST") /\ req[o].status = 201
        /\ Done(r, "GET") /\ req[r].status = 200
        /\ req[r].data = req[o].data
        /\ req[r].data.title = Dune.title
        /\ req[r].data.createdAt < now

\* n is ceil(total / limit): the least number of pages of limit entries that
\* hold total entries
IsCeil(n, total, limit) ==
    /\ n \in Nat
    /\ n * limit >= total
    /\ (n - 1) * limit < total

\* C13: a 200 List response carries the six pagination fields, with the
\* requested page and limit, the count read with the page, pages =
\* ceil(total/limit), hasNext = (page < pages), hasPrev = (page > 1); hasNext
\* is false on the final page and beyond and true before it; a count of 0
\* gives data = [], pages = 0 and hasNext = false.
C13_Pagination ==
    /\ [](\A r \in Reqs :
            (Done(r, "LIST") /\ req[r].status = 200) =>
               LET p == req[r].pagination
               IN /\ DOMAIN p = {"page", "limit", "total", "pages", "hasNext", "hasPrev"}
                  /\ IsCeil(p.pages, p.total, p.limit)
                  /\ p.hasNext = (p.page < p.pages)
                  /\ p.hasPrev = (p.page > 1)
                  /\ p.hasNext = (p.page * p.limit < p.total)
                  /\ p.total = 0 =>
                        req[r].data = << >> /\ p.pages = 0 /\ ~p.hasNext)
    /\ [][\A r \in Reqs :
            /\ (req'[r].pc = "list" /\ req[r].pc # "list") =>
                  req'[r].total = Len(movies)
            /\ ListRespond(r) =>
                  /\ req'[r].status = 200
                  /\ req'[r].data = req[r].movies
                  /\ req'[r].pagination.page = req[r].page
                  /\ req'[r].pagination.limit = req[r].limit
                  /\ req'[r].pagination.total = req[r].total]_vars

\* C13 witness: the first page of size one of a store of two entries was
\* answered with pages = 2 and hasNext = true.
C13_Witness ==
    \E r \in Reqs :
        /\ Done(r, "LIST") /\ req[r].status = 200
        /\ req[r].pagination.total = 2 /\ req[r].pagination.limit = 1
        /\ req[r].pagination.page = 1 /\ req[r].pagination.pages = 2
        /\ req[r].pagination.hasNext /\ ~req[r].pagination.hasPrev

\* C14: the page a list call returned holds exactly the entries at the
\* 0-based positions offset .. offset + pageSize - 1 of the ordered collection
\* that exist, with offset = (page - 1) * pageSize; so it has at most pageSize
\* entries, and it is the empty sequence when offset >= count.
C14_PageWindow ==
    obs.op = "getAllMovies" =>
       LET offset == (obs.page - 1) * obs.limit
           count == getMoviesCount(movies)
           size == Min(obs.limit, Max(0, count - offset))
       IN /\ Len(obs.result) = size
          /\ \A i \in 1..size : obs.result[i] = AllMovies(movies)[offset + i]
          /\ Len(obs.result) <= obs.limit
          /\ offset >= count => obs.result = << >>

\* C14 witness: a page whose offset is the count was listed from a store
\* that holds entries, and the result is empty.
C14_Witness ==
    /\ obs.op = "getAllMovies"
    /\ getMoviesCount(movies) = 2
    /\ (obs.page - 1) * obs.limit = 2
    /\ obs.result = << >>

(***************************************************************************)
(* Properties of requests handled one at a time                            *)
(***************************************************************************)
\* The value v breaks the rule of content field k: title of 2 to 255
\* characters, director and location of 1 to 255, budget of 1 to 100,
\* duration and yearTime of 1 to 50, type one of the two literals.
RuleBroken(k, v) ==
    CASE k = "type" -> v \notin {"Movie", "TV Show"}
      [] k = "title" -> Len(v) < 2 \/ Len(v) > 255
      [] k \in {"director", "location"} -> Len(v) < 1 \/ Len(v) > 255
      [] k = "budget" -> Len(v) < 1 \/ Len(v) > 100
      [] OTHER -> Len(v) < 1 \/ Len(v) > 50

\* A PUT body that supplies no content field, or one that breaks its rule
PutBodyRejected(body) ==
    LET given == (DOMAIN body) \cap ContentFields
    IN given = {} \/ \E k \in given : RuleBroken(k, body[k])

Answered(r, status) == req'[r].pc = "done" /\ req'[r].status = status

\* The step receives on connection r a request of method op.
Starts(r, op) ==
    /\ started' = started + 1
    /\ req'[r] # req[r]
    /\ req'[r].op = op

\* C15: with one request handled at a time, GET-one, PUT and DELETE answer
\* 400 for a malformed id, else (PUT) 400 for an empty or invalid body
\* whether or not the id is stored, else 404 for an id that is not stored,
\* else 200; nothing but these statuses is sent, and a request answered 400
\* or 404 leaves the map as it was.
C15_StatusPrecedence ==
    /\ [](\A r \in Reqs :
            (req[r].pc = "done" /\ req[r].op \in {"GET", "PUT", "DELETE"})
                => req[r].status \in {200, 400, 404})
    /\ [](\A r \in Reqs :
            /\ req[r].pc = "get" => req[r].movie = getMovie(movies, req[r].id)
            /\ req[r].pc \in {"put.got", "delete.got"} =>
                  req[r].existingMovie = getMovie(movies, req[r].id)
            /\ req[r].pc = "put.updated" =>
                  ~req[r].threw /\ req[r].id \in Keys(movies)
            /\ req[r].pc = "delete.deleted" => req[r].id \notin Keys(movies))
    /\ [][\A r \in Reqs :
            /\ Starts(r, "GET") =>
                  \A id \in {req'[r].id} :
                     StartGet(r, id) =>
                        /\ movies' = movies
                        /\ IF id \notin Uuids THEN Answered(r, 400)
                           ELSE req'[r].pc = "get"
            /\ Starts(r, "DELETE") =>
                  \A id \in {req'[r].id} :
                     StartDelete(r, id) =>
                        /\ movies' = movies
                        /\ IF id \notin Uuids THEN Answered(r, 400)
                           ELSE req'[r].pc = "delete.got"
            /\ Starts(r, "PUT") =>
                  \A id \in {req'[r].id}, body \in PutBodies :
                     StartPut(r, id, body) =>
                        /\ movies' = movies
                        /\ IF id \notin Uuids \/ PutBodyRejected(body)
                           THEN Answered(r, 400)
                           ELSE req'[r].pc = "put.got"
            /\ GetRespond(r) =>
                  /\ movies' = movies
                  /\ Answered(r, IF req[r].id \in Keys(movies) THEN 200 ELSE 404)
            /\ PutAfterGet(r) =>
                  IF req[r].id \in Keys(movies)
                  THEN req'[r].pc = "put.updated"
                  ELSE Answered(r, 404) /\ movies' = movies
            /\ PutRespond(r) => Answered(r, 200)
            /\ DeleteAfterGet(r) =>
                  IF req[r].id \in Keys(movies)
                  THEN req'[r].pc = "delete.deleted"
                  ELSE Answered(r, 404) /\ movies' = movies
            /\ DeleteRespond(r) => Answered(r, 200)]_vars

\* C15 witness: a PUT of a rejected body to a well-formed id that was never
\* stored was answered 400 for its body, while the store holds an entry.
C15_Witness ==
    \E r \in Reqs :
        /\ Done(r, "PUT") /\ req[r].status = 400
        /\ req[r].id \in Uuids \ Issued
        /\ req[r].message = "Validation failed"
        /\ movies # << >>

\* The content fields a POST body lacks or fills against their rule
PostViolations(body) ==
    {k \in ContentFields : k \notin DOMAIN body \/ RuleBroken(k, body[k])}

\* C16: a POST whose body lacks a field or breaks a rule is answered 400 with
\* a non-empty error list for each such field and leaves the map as it was;
\* any other POST appends exactly one entry, under a new id and with the
\* submitted fields, keeps the entries there were, raises the count by one,
\* and is answered 201 with that entry.
C16_CreateValidated ==
    /\ [](\A r \in Reqs : Done(r, "POST") => req[r].status \in {201, 400})
    /\ [][\A r \in Reqs :
            /\ Starts(r, "POST") =>
                  \A body \in PostBodies :
                     StartCreate(r, body) =>
                        IF PostViolations(body) # {}
                        THEN /\ Answered(r, 400)
                             /\ \A k \in PostViolations(body) :
                                   /\ k \in DOMAIN req'[r].errors
                                   /\ req'[r].errors[k] # << >>
                             /\ movies' = movies
                        ELSE /\ req'[r].pc = "post"
                             /\ getMoviesCount(movies') = getMoviesCount(movies) + 1
                             /\ SubSeq(movies', 1, Len(movies)) = movies
                             /\ LET e == movies'[Len(movies')]
                                IN /\ e.k \notin Keys(movies)
                                   /\ e.v = req'[r].movie
                                   /\ \A k \in ContentFields : e.v[k] = body[k]
            /\ CreateRespond(r) =>
                  /\ Answered(r, 201)
                  /\ req'[r].data = req[r].movie
                  /\ movies' = movies]_vars

\* C16 witness: beside the 201 of a POST, a POST with a 1-character title was
\* answered 400 with errors for title, and the store holds the one entry.
C16_Witness ==
    \E r, o \in Reqs :
        /\ Done(o, "POST") /\ req[o].status = 201
        /\ Done(r, "POST") /\ req[r].status = 400
        /\ DOMAIN req[r].errors = {"title"}
        /\ Keys(movies) = {req[o].data.id}

\* The entry stored under id, or Undefined
Stored(id) ==
    IF \E i \in 1..Len(movies) : movies[i].k = id
    THEN movies[MapIndex(movies, id)].v
    ELSE Undefined

\* The step is a handler's call of deleteMovie for id.
Deletes(id) == \E r \in Reqs : DeleteAfterGet(r) /\ req[r].id = id

\* C17: the store a read sees is the store as the completed mutations left
\* it.  While a 200 of a DELETE shows, the id is not stored; the id of a 201
\* stays stored until a deleteMovie call for it, and while stored it is in
\* exactly one page of every full walk; a create raises the count by one; an
\* id that was created and is no longer stored is never stored again; a GET
\* reads the entry now stored or none, and answers 404 for none; a list reads
\* the count of the entries now stored and only entries now stored, all of
\* them when the page is wide enough.
C17_ReadsSeeCommitted ==
    /\ [](\A o \in Reqs :
            /\ (Done(o, "DELETE") /\ req[o].status = 200) =>
                  req[o].id \in Issued \ Keys(movies)
            /\ (Done(o, "POST") /\ req[o].status = 201
                   /\ req[o].data.id \in Keys(movies)) =>
                  \A limit \in 1..MaxLimit :
                     LET w == Walk(movies, CeilDiv(Len(movies), limit), limit)
                     IN Cardinality({j \in 1..Len(w) : w[j].id = req[o].data.id}) = 1)
    /\ [][/\ \A id \in Issued \ Keys(movies) : id \notin Keys(movies')
          /\ \A id \in Keys(movies) :
                (id \in Keys(movies')) \/ Deletes(id)
          /\ IsCreate =>
                (/\ Len(movies') = Len(movies) + 1
                 /\ NewId \in Keys(movies')
                 /\ \E r \in Reqs : req'[r].pc = "post" /\ req'[r].movie.id = NewId)
          /\ \A r \in Reqs :
                /\ (req'[r].pc = "get" /\ req[r].pc # "get") =>
                      req'[r].movie = Stored(req'[r].id)
                /\ (GetRespond(r) /\ req[r].movie = Undefined) => Answered(r, 404)
                /\ (req'[r].pc = "list" /\ req[r].pc # "list") =>
                      LET page == req'[r].movies
                      IN /\ req'[r].total = Len(movies)
                         /\ \A j \in 1..Len(page) : page[j] = Stored(page[j].id)
                         /\ \A i, j \in 1..Len(page) : page[i].id = page[j].id => i = j
                         /\ (req'[r].page = 1 /\ req'[r].limit >= Len(movies)) =>
                               Len(page) = Len(movies)]_vars

\* C17 witness: while one connection shows the 200 of a DELETE, a GET of the
\* deleted id is in flight and has read no entry.
C17_Witness ==
    \E r, o \in Reqs :
        /\ Done(o, "DELETE") /\ req[o].status = 200
        /\ req[r].pc = "get" /\ req[r].id = req[o].id
        /\ req[r].movie = Undefined
        /\ req[o].id \in Issued

(***************************************************************************)
(* Store calls for an id the map does not hold                             *)
(***************************************************************************)
\* C18: an updateMovie call for an id that is not stored fails with the
\* error "Movie not found" and leaves the map as it was, so the map never
\* holds an id that createMovie did not return; a deleteMovie call for an id
\* that is not stored completes with no error and leaves the map as it was.
C18_AbsentIdCalls ==
    /\ [](Keys(movies) \subseteq Issued)
    /\ [][\A id \in Uuids \ Keys(movies) :
            /\ \A updateData \in UpdateInputs :
                  (StoreUpdate(id, updateData) \/ StoreUpdateThrows(id, updateData)) =>
                     /\ movies' = movies
                     /\ obs' = [op |-> "updateMovie", id |-> id,
                                error |-> "Movie not found"]
            /\ StoreDelete(id) =>
                  movies' = movies /\ "error" \notin DOMAIN obs']_vars

\* C18 witness: updateMovie was called for the id of an entry that had been
\* deleted, while the map holds another entry; the call failed.
C18_Witness ==
    /\ obs.op = "updateMovie"
    /\ obs.error = "Movie not found"
    /\ obs.id \in Issued \ Keys(movies)
    /\ movies # << >>

(***************************************************************************)
(* Properties of the list query                                            *)
(***************************************************************************)
\* The integers from lo to hi that text is the decimal numeral of
Denoted(text, lo, hi) == {n \in Numerals : lo <= n /\ n <= hi /\ ToString(n) = text}

\* The parameters of a query that are given and are no integer in range
Offending(query) ==
    {k \in (DOMAIN query) \cap {"page", "limit"} :
        Denoted(query[k], 1, IF k = "limit" THEN 100 ELSE 100 + 1) = {}}

\* The value a parameter in range stands for, 1 and 10 when left out
Requested(query, k) ==
    IF k \in DOMAIN query
    THEN CHOOSE n \in Numerals : ToString(n) = query[k]
    ELSE IF k = "page" THEN 1 ELSE 10

\* C19: GET /api/movies with page or limit given and below 1, limit above
\* 100, or either no integer, is answered 400 with a non-empty error list
\* for each such parameter and with no entries; any other query is read as
\* its page and limit, 1 and 10 when left out, and answered 200 for them.
C19_ListQueryValidated ==
    /\ [](\A r \in Reqs : Done(r, "LIST") => req[r].status \in {200, 400})
    /\ [][\A r \in Reqs :
            /\ Starts(r, "LIST") =>
                  \A query \in ListQueries \cup EdgeQueries :
                     StartList(r, query) =>
                        IF Offending(query) # {}
                        THEN /\ Answered(r, 400)
                             /\ \A k \in Offending(query) :
                                   /\ k \in DOMAIN req'[r].errors
                                   /\ req'[r].errors[k] # << >>
                             /\ "data" \notin DOMAIN req'[r]
                        ELSE /\ req'[r].pc = "list"
                             /\ req'[r].page = Requested(query, "page")
                             /\ req'[r].limit = Requested(query, "limit")
            /\ ListRespond(r) =>
                  /\ Answered(r, 200)
                  /\ req'[r].pagination.page = req[r].page
                  /\ req'[r].pagination.limit = req[r].limit]_vars

\* C19 witness: over a store that holds an entry, one list was answered 400
\* for a limit above the ceiling and another 200 with the default limit.
C19_Witness ==
    \E r, o \in Reqs :
        /\ Done(r, "LIST") /\ req[r].status = 400
        /\ "limit" \in DOMAIN req[r].errors
        /\ req[r].errors.limit = <<"Number must be less than or equal to 100">>
        /\ Done(o, "LIST") /\ req[o].status = 200
        /\ req[o].pagination.limit = DefaultLimit
        /\ req[o].pagination.page = MaxPage
        /\ movies # << >>

(***************************************************************************)
(* Concurrent DELETE requests                                              *)
(***************************************************************************)
\* C20: of the DELETE requests for one id, at most one is answered 200.
C20_OneDelete200 ==
    \A r, o \in Reqs :
        (/\ Done(r, "DELETE") /\ req[r].status = 200
         /\ Done(o, "DELETE") /\ req[o].status = 200
         /\ req[r].id = req[o].id)
            => r = o

(***************************************************************************)
(* Lists that race with mutations                                          *)
(***************************************************************************)
\* The entries at the 0-based positions offset .. offset + limit - 1 of
\* sequence s that exist
Window(s, page, limit) ==
    LET offset == (page - 1) * limit
        size == Min(limit, Max(0, Len(s) - offset))
    IN [i \in 1..size |-> s[offset + i]]

\* C21: a list handler reads its page and its count from the map of one
\* state, and its 200 carries both as read, whatever other handlers do to the
\* map before the response: data is the page's slice of the ordering of
\* that state, total is that state's size, and so length(data) =
\* min(limit, max(0, total - (page - 1) * limit)).
C21_ListOneState ==
    /\ [](\A r \in Reqs :
            (Done(r, "LIST") /\ req[r].status = 200) =>
               LET p == req[r].pagination
               IN Len(req[r].data) =
                     Min(p.limit, Max(0, p.total - (p.page - 1) * p.limit)))
    /\ [][\A r \in Reqs :
            /\ (req'[r].pc = "list" /\ req[r].pc # "list") =>
                  /\ req'[r].total = Len(movies)
                  /\ req'[r].movies =
                        Window(AllMovies(movies), req'[r].page, req'[r].limit)
            /\ ListRespond(r) =>
                  /\ req'[r].data = req[r].movies
                  /\ req'[r].pagination.total = req[r].total
                  /\ req'[r].pagination.page = req[r].page
                  /\ req'[r].pagination.limit = req[r].limit]_vars

\* C21 witness: a list handler holds the one entry and the count 1 it read,
\* its response not yet sent, and a POST on the other connection has since
\* stored a second entry.
C21_Witness ==
    \E r, o \in Reqs :
        /\ req[r].pc = "list" /\ req[r].total = 1 /\ Len(req[r].movies) = 1
        /\ req[o].pc = "post"
        /\ Len(movies) = 2
        /\ req[o].movie.id # req[r].movies[1].id

(***************************************************************************)
(* Concurrent PUT requests                                                 *)
(***************************************************************************)
\* The handler on connection r has applied its update and not yet answered.
Applied(r) == req[r].pc = "put.updated" /\ ~req[r].threw

\* C22: an update is merged over the entry the map holds when updateMovie
\* is called, not over the copy the existence check read: the fields the
\* body supplies take its values and every other content field keeps the
\* stored value.  So when a PUT handler applies its update while another
\* for the same id with disjoint fields has applied its own and the entry
\* still holds those values, the stored entry carries the values of both,
\* in either order and however the two reads interleaved; each is then
\* answered 200 with the entry as its own update left it.
C22_NoLostUpdate ==
    [][\A r \in Reqs :
        /\ (req[r].pc = "put.got" /\ req'[r].pc = "put.updated"
               /\ ~req'[r].threw) =>
              /\ \A k \in ContentFields :
                    MapGet(movies', req[r].id)[k] =
                       IF k \in DOMAIN req[r].data THEN req[r].data[k]
                       ELSE MapGet(movies, req[r].id)[k]
              /\ req'[r].updatedMovie = MapGet(movies', req[r].id)
              /\ \A o \in Reqs \ {r} :
                    (/\ Applied(o) /\ req[o].id = req[r].id
                     /\ (DOMAIN req[r].data) \cap (DOMAIN req[o].data) = {}
                     /\ \A k \in DOMAIN req[o].data :
                           MapGet(movies, req[r].id)[k] = req[o].data[k])
                        => /\ \A k \in DOMAIN req[o].data :
                                 MapGet(movies', req[r].id)[k] = req[o].data[k]
                           /\ \A k \in DOMAIN req[r].data :
                                 MapGet(movies', req[r].id)[k] = req[r].data[k]
        /\ (PutRespond(r) /\ ~req[r].threw) =>
              Answered(r, 200) /\ req'[r].data = req[r].updatedMovie]_vars

\* C22 witness: two PUT handlers for one entry have applied a budget and a
\* location; the one applied first returns the entry without the other's
\* value, and the stored entry carries both.
C22_Witness ==
    \E r, o \in Reqs :
        /\ Applied(r) /\ Applied(o) /\ req[r].id = req[o].id
        /\ req[r].data = Relocated /\ "budget" \in DOMAIN req[o].data
        /\ req[r].updatedMovie.budget = Dune.budget
        /\ req[o].updatedMovie.location = Relocated.location
        /\ Stored(req[r].id).budget = req[o].data.budget
        /\ Stored(req[r].id).location = Relocated.location

(***************************************************************************)
(* Position in the list ordering                                           *)
(***************************************************************************)
\* The ids that a walk over all pages of the given limit produces, in order.
FullWalk(m, limit) ==
    LET walk == Walk(m, CeilDiv(Len(m), limit), limit)
    IN [i \in 1..Len(walk) |-> walk[i].id]

\* C24: an update that succeeds leaves the sequence of ids of a full list
\* walk as it was, for every page size; a delete removes the deleted id
\* from the sequence and leaves the remaining ids in their order.
C24_PositionStable ==
    [][movies' # movies =>
        \A id \in Keys(movies) :
            /\ (\E updateData \in UpdateInputs : StoreUpdate(id, updateData)) =>
                  \A limit \in 1..MaxLimit :
                      FullWalk(movies', limit) = FullWalk(movies, limit)
            /\ StoreDelete(id) =>
                  \A limit \in 1..MaxLimit :
                      FullWalk(movies', limit) =
                         SelectSeq(FullWalk(movies, limit), LAMBDA k : k # id)]_vars

\* C24 witness: after a delete, the list holds two entries created at the
\* same time of which the one listed first has been updated later on.
C24_Witness ==
    /\ Len(created) > Len(movies)
    /\ \E i \in 1..(Len(movies) - 1) :
          LET all == AllMovies(movies)
          IN /\ all[i].createdAt = all[i + 1].createdAt
             /\ all[i].updatedAt > all[i].createdAt
             /\ all[i + 1].updatedAt = all[i + 1].createdAt

(***************************************************************************)
(* The page walk                                                           *)
(***************************************************************************)
\* The ids of the entries shown by the page.
Shown == {client.allMovies[i].id : i \in 1..Len(client.allMovies)}

\* The walk has ended: a response with hasNext = false has reached the page.
WalkEnded == client.loaded >= 1 /\ ~client.hasMore

\* C23: with creates only, the map grows at its end, so the entries that
\* existed when page 1 was read are the first client.first keys of the
\* map.  When the walk has ended, each of them has been returned by some
\* page of the walk, whatever entries were created between its requests.
C23_WalkSkipsNone ==
    WalkEnded => \A i \in 1..client.first : movies[i].k \in Shown

\* C23 witness: a walk of three pages of one entry has ended; two entries
\* existed at page 1 and both are shown, the one created during the walk
\* pushed an entry onto the next page, where it was returned again, and is
\* itself not shown.
C23_Witness ==
    /\ WalkEnded /\ client.loaded = 3 /\ client.limit = 1
    /\ client.first = 2 /\ Len(movies) = 3
    /\ Shown = {movies[1].k, movies[2].k}

====
